---- MODULE Spec2Model ----
(***************************************************************************)
(* A model of the type inference engine of confer (src/src/infer.rs):      *)
(* constraint generation over the three expression forms, the scoped       *)
(* environment, the substitution store and the unifier with its occurs     *)
(* check.  One Engine is constructed over a base environment, infers one   *)
(* expression, solves the constraints and substitutes the inferred type,   *)
(* as main1 does (src/src/main.rs).                                        *)
(*                                                                         *)
(* A panic of the Rust code (unwrap on None, a failed assert!) is the      *)
(* terminal state pc = "panicked"; unbounded recursion (a stack overflow,  *)
(* or an endless loop where the call is compiled as a jump) is the         *)
(* terminal state pc = "overflow".                                         *)
(***************************************************************************)
EXTENDS Integers, Sequences, FiniteSets, TLC

VARIABLES
    expr,         \* the expression handed to infer
    pc,           \* position in the infer / solve / substitute sequence
    subst,        \* Engine.subst: slot i+1 holds the mapping of Var(i)
    constraints,  \* Engine.constraints
    env,          \* Engine.env: the stack of scopes, innermost last
    ty,           \* the type infer returned (a sequence of length <= 1)
    pending,      \* solve_constraints: the cloned constraints not yet visited
    work,         \* unify: the calls still to run, innermost first
    err,          \* which check failed, "none" while none did
    result        \* the type substitute returned (a sequence of length <= 1)

vars == <<expr, pc, subst, constraints, env, ty, pending, work, err, result>>

----------------------------------------------------------------------------
(* Bounds *)

\* Largest number of nodes of the expression handed to infer.
MaxSize == 6

----------------------------------------------------------------------------
(* enum Type, enum Constraint (infer.rs), enum Expr (expr.rs) *)

TVar(i) == [id |-> i]
TCon(n, a) == [name |-> n, args |-> a]
IsVar(t) == "id" \in DOMAIN t
IsCon(t) == "name" \in DOMAIN t

Eq(t1, t2) == <<t1, t2>>

EVar(v) == [var |-> v]
EApp(f, a) == [fun |-> f, arg |-> a]
EAbs(p, b) == [param |-> p, body |-> b]
IsEVar(e) == "var" \in DOMAIN e
IsEApp(e) == "fun" \in DOMAIN e
IsEAbs(e) == "param" \in DOMAIN e

IntTy == TCon("Int", <<>>)
Fun(a, b) == TCon("Fun", <<a, b>>)

----------------------------------------------------------------------------
(* The inputs: base environments and expressions *)

\* The base environment of the end-to-end example.
EnvOne == [n \in {"one"} |-> IntTy]
\* The same with a function over Int.
EnvInc == [n \in {"one", "inc"} |-> IF n = "one" THEN IntTy ELSE Fun(IntTy, IntTy)]
\* The same with a Fun of one argument, as a caller may predeclare it.
EnvOdd == [n \in {"one", "inc"} |-> IF n = "one" THEN IntTy ELSE TCon("Fun", <<IntTy>>)]

BaseEnvs == {EnvOne, EnvInc, EnvOdd}

ParamNames == {"x", "y"}
VarNames == {"x", "y", "one", "inc"}

RECURSIVE ExprsOfSize(_)
ExprsOfSize(n) ==
    IF n = 1
    THEN {EVar(v) : v \in VarNames}
    ELSE {EAbs(p, b) : p \in ParamNames, b \in ExprsOfSize(n - 1)}
         \cup UNION {{EApp(f, a) : f \in ExprsOfSize(i), a \in ExprsOfSize(n - 1 - i)}
                     : i \in 1..(n - 2)}

Exprs == UNION {ExprsOfSize(n) : n \in 1..MaxSize}

----------------------------------------------------------------------------
(* The environment and the fresh variables *)

\* HashMap::new()
EmptyScope == [n \in {} |-> IntTy]

\* Engine::new_scope: push an empty scope.
new_scope(e) == Append(e, EmptyScope)

\* Engine::exit_scope: pop the innermost scope.
exit_scope(e) == SubSeq(e, 1, Len(e) - 1)

\* Engine::extend: insert (name, t) into the innermost scope.
extend(e, name, t) ==
    LET top == e[Len(e)]
    IN [e EXCEPT ![Len(e)] =
            [n \in (DOMAIN top) \cup {name} |-> IF n = name THEN t ELSE top[n]]]

\* get_var scanning the scopes from the outermost inward.
RECURSIVE get_var_outer_from(_, _, _)
get_var_outer_from(e, i, name) ==
    IF i > Len(e) THEN <<>>
    ELSE IF name \in DOMAIN e[i] THEN <<e[i][name]>>
    ELSE get_var_outer_from(e, i + 1, name)

get_var_outermost(e, name) == get_var_outer_from(e, 1, name)

\* Engine::get_var: the scopes from the innermost outward, first match wins.
\* None is <<>>, Some(t) is <<t>>.
RECURSIVE get_var_from(_, _, _)
get_var_from(e, i, name) ==
    IF i = 0 THEN <<>>
    ELSE IF name \in DOMAIN e[i] THEN <<e[i][name]>>
    ELSE get_var_from(e, i - 1, name)

get_var(e, name) == get_var_from(e, Len(e), name)

\* Engine::new_tyvar: the store grown by one self-mapped slot.
new_tyvar(s) == Append(s, TVar(Len(s)))

----------------------------------------------------------------------------
(* Engine::infer *)

\* The App arm with the argument and result types exchanged.
AppConstraint_swapped(fun_ty, arg_ty, fun_out_ty) == Eq(fun_ty, Fun(fun_out_ty, arg_ty))

\* The constraint the App arm pushes.
AppConstraint(fun_ty, arg_ty, fun_out_ty) == Eq(fun_ty, Fun(arg_ty, fun_out_ty))

\* The type the Abs arm returns.
AbsType(arg_ty, body_ty) == Fun(arg_ty, body_ty)

\* The engine while infer runs: e.ok is FALSE once get_var(..).unwrap() has
\* panicked, and the engine is then left as it was at the panic.
RECURSIVE infer(_, _)
infer(ex, e) ==
    IF ~e.ok THEN e
    ELSE IF IsEVar(ex) THEN
        LET got == get_var(e.env, ex.var)
        IN IF got = <<>> THEN [e EXCEPT !.ok = FALSE]
           ELSE [e EXCEPT !.ty = got[1]]
    ELSE IF IsEApp(ex) THEN
        LET e1 == infer(ex.fun, e)
            e2 == infer(ex.arg, e1)
            fun_out_ty == TVar(Len(e2.subst))
        IN IF ~e2.ok THEN e2
           ELSE [e2 EXCEPT !.subst = new_tyvar(@),
                           !.constraints = Append(@, AppConstraint(e1.ty, e2.ty, fun_out_ty)),
                           !.ty = fun_out_ty]
    ELSE
        LET arg_ty == TVar(Len(e.subst))
            e1 == [e EXCEPT !.subst = new_tyvar(@),
                            !.env = extend(new_scope(@), ex.param, arg_ty)]
            e2 == infer(ex.body, e1)
        IN IF ~e2.ok THEN e2
           ELSE [e2 EXCEPT !.env = exit_scope(@),
                           !.ty = AbsType(arg_ty, e2.ty)]

----------------------------------------------------------------------------
(* Engine::occurs_in *)

\* The walk of occurs_in.  "T" and "F" are the values it returns; "D" is the
\* recursion that never returns.  `inside` holds the variables whose call
\* occurs_in(index, Var(id)) is on the call stack: the store does not change
\* during the walk, so such a call reached again from inside itself repeats
\* without end.
RECURSIVE occurs_walk(_, _, _, _), occurs_any(_, _, _, _, _)
occurs_walk(s, index, t, inside) ==
    IF IsCon(t) THEN occurs_any(s, index, t.args, 1, inside)
    ELSE LET map == s[t.id + 1]
         IN IF map = TVar(index) THEN "T"
            ELSE IF t.id \in inside THEN "D"
            ELSE occurs_walk(s, index, map, inside \cup {t.id})

\* args.iter().any(..): left to right, stopping at the first true.
occurs_any(s, index, args, i, inside) ==
    IF i > Len(args) THEN "F"
    ELSE LET r == occurs_walk(s, index, args[i], inside)
         IN IF r = "F" THEN occurs_any(s, index, args, i + 1, inside) ELSE r

occurs_in(s, index, t) == occurs_walk(s, index, t, {})

----------------------------------------------------------------------------
(* Engine::unify, one call at a time *)

\* x.iter().zip(y): the pairs up to the shorter length.
RECURSIVE zip(_, _)
zip(x, y) ==
    IF x = <<>> \/ y = <<>> THEN <<>>
    ELSE <<Eq(Head(x), Head(y))>> \o zip(Tail(x), Tail(y))

\* The bound-variable arm leaving the mapping as it is, without unifying it.
UnifyBound_dropped(map, y) == <<>>

\* The arm of unify for a bound variable: unify its mapping with y.
UnifyBound(map, y) == <<Eq(map, y)>>

\* The unbound-variable arm binding x_id to y without the occurs check.
UnifyUnbound_unchecked(s, x_id, y) ==
    [subst |-> [s EXCEPT ![x_id + 1] = y], calls |-> <<>>, out |-> "ok"]

\* The arm of unify for an unbound variable x_id against y.
UnifyUnbound(s, x_id, y) ==
    LET occurs == occurs_in(s, x_id, y)
    IN IF occurs = "D" THEN [subst |-> s, calls |-> <<>>, out |-> "overflow"]
       ELSE IF occurs = "T" THEN [subst |-> s, calls |-> <<>>, out |-> "assert_occurs"]
       ELSE [subst |-> [s EXCEPT ![x_id + 1] = y], calls |-> <<>>, out |-> "ok"]

\* The arm of unify for two constructors.
UnifyCon(s, x, y) ==
    IF x.name # y.name THEN [subst |-> s, calls |-> <<>>, out |-> "assert_name"]
    ELSE IF Len(x.args) # Len(y.args) THEN [subst |-> s, calls |-> <<>>, out |-> "assert_arity"]
    ELSE [subst |-> s, calls |-> zip(x.args, y.args), out |-> "ok"]

\* One call unify(t1, t2) on the store s: the store it leaves, the calls it
\* makes in turn (in order), and how it ends.
unify(s, t1, t2) ==
    IF IsVar(t1) /\ IsVar(t2) /\ t1.id = t2.id
    THEN [subst |-> s, calls |-> <<>>, out |-> "ok"]
    ELSE IF IsVar(t1) \/ IsVar(t2) THEN
        LET x_id == IF IsVar(t1) THEN t1.id ELSE t2.id
            y == IF IsVar(t1) THEN t2 ELSE t1
            map == s[x_id + 1]
        IN IF map = TVar(x_id) THEN UnifyUnbound(s, x_id, y)
           ELSE [subst |-> s, calls |-> UnifyBound(map, y), out |-> "ok"]
    ELSE UnifyCon(s, t1, t2)

----------------------------------------------------------------------------
(* Engine::substitute *)

\* substitute following a binding for one step only.
RECURSIVE substitute_once(_, _), substitute_once_args(_, _)
substitute_once(s, t) ==
    IF IsVar(t) THEN s[t.id + 1]
    ELSE TCon(t.name, substitute_once_args(s, t.args))

substitute_once_args(s, args) ==
    IF args = <<>> THEN <<>>
    ELSE <<substitute_once(s, Head(args))>> \o substitute_once_args(s, Tail(args))

RECURSIVE substitute(_, _), substitute_args(_, _)
substitute(s, t) ==
    IF IsVar(t)
    THEN IF s[t.id + 1] # TVar(t.id) THEN substitute(s, s[t.id + 1]) ELSE t
    ELSE TCon(t.name, substitute_args(s, t.args))

substitute_args(s, args) ==
    IF args = <<>> THEN <<>>
    ELSE <<substitute(s, Head(args))>> \o substitute_args(s, Tail(args))

----------------------------------------------------------------------------
(* The engine's life: new, infer, solve_constraints, substitute *)

\* Engine::new over a base environment, and the expression to infer.
Init ==
    /\ expr \in Exprs
    /\ env \in {<<b>> : b \in BaseEnvs}
    /\ pc = "start"
    /\ subst = <<>>
    /\ constraints = <<>>
    /\ ty = <<>>
    /\ pending = <<>>
    /\ work = <<>>
    /\ err = "none"
    /\ result = <<>>

\* engine.infer(&expr)
Infer ==
    /\ pc = "start"
    /\ LET e == infer(expr, [subst |-> subst, constraints |-> constraints,
                             env |-> env, ty |-> IntTy, ok |-> TRUE])
       IN /\ subst' = e.subst
          /\ constraints' = e.constraints
          /\ env' = e.env
          /\ IF e.ok
             THEN ty' = <<e.ty>> /\ pc' = "inferred" /\ err' = err
             ELSE ty' = <<>> /\ pc' = "panicked" /\ err' = "unwrap_none"
    /\ UNCHANGED <<expr, pending, work, result>>

\* solve_constraints: let constraints = self.constraints.clone()
SolveBegin ==
    /\ pc = "inferred"
    /\ pending' = constraints
    /\ pc' = "solving"
    /\ UNCHANGED <<expr, subst, constraints, env, ty, work, err, result>>

\* The effect of one call of unify on the engine, `rest` being the calls
\* that remain after it.
UnifyEffect(c, rest) ==
    LET u == unify(subst, c[1], c[2])
    IN /\ subst' = u.subst
       /\ IF u.out = "ok"
          THEN work' = u.calls \o rest /\ pc' = pc /\ err' = err
          ELSE IF u.out = "overflow"
          THEN work' = rest /\ pc' = "overflow" /\ err' = err
          ELSE work' = rest /\ pc' = "panicked" /\ err' = u.out

\* solve_constraints: the loop takes the next constraint and calls unify.
SolveNext ==
    /\ pc = "solving"
    /\ work = <<>>
    /\ pending # <<>>
    /\ pending' = Tail(pending)
    /\ UnifyEffect(Head(pending), <<>>)
    /\ UNCHANGED <<expr, constraints, env, ty, result>>

\* A call unify makes in turn: on the mapping of a bound variable, or on a
\* pair of constructor arguments.
UnifyStep ==
    /\ pc = "solving"
    /\ work # <<>>
    /\ UnifyEffect(Head(work), Tail(work))
    /\ UNCHANGED <<expr, constraints, env, ty, pending, result>>

\* solve_constraints: self.constraints.clear()
SolveEnd ==
    /\ pc = "solving"
    /\ work = <<>>
    /\ pending = <<>>
    /\ constraints' = <<>>
    /\ pc' = "solved"
    /\ UNCHANGED <<expr, subst, env, ty, pending, work, err, result>>

\* engine.substitute(ty)
Substitute ==
    /\ pc = "solved"
    /\ result' = <<substitute(subst, ty[1])>>
    /\ pc' = "done"
    /\ UNCHANGED <<expr, subst, constraints, env, ty, pending, work, err>>

Next ==
    \/ Infer
    \/ SolveBegin
    \/ SolveNext
    \/ UnifyStep
    \/ SolveEnd
    \/ Substitute

Spec == Init /\ [][Next]_vars

----------------------------------------------------------------------------
(* The end-to-end example: App(Abs("x", Var("x")), Var("one")) over          *)
(* {"one": Int}                                                             *)

ExampleExpr == EApp(EAbs("x", EVar("x")), EVar("one"))

\* The engine runs the example: env[1] is the base scope it was built over.
RunsExample == expr = ExampleExpr /\ env[1] = EnvOne

\* C1: over the base environment {"one": Int}, infer, solve_constraints and
\* substitute of the type infer returned, on App(Abs("x", Var("x")),
\* Var("one")), yield Con{"Int", []}.
C1_EndToEndInt ==
    (RunsExample /\ pc = "done") => result = <<IntTy>>

\* The example has run to its end and substitute has returned Int.
C1_Witness ==
    RunsExample /\ pc = "done" /\ result = <<IntTy>> /\ err = "none"

\* C9, as stated: on the example infer returns Var(2) and leaves a constraint
\* Eq(Fun[Var(0), Var(1)], Fun[Var(0), Var(2)]).
C9_AsStated ==
    (RunsExample /\ pc = "inferred") =>
        /\ ty = <<TVar(2)>>
        /\ \E i \in DOMAIN constraints :
               constraints[i] = Eq(Fun(TVar(0), TVar(1)), Fun(TVar(0), TVar(2)))

\* C9, amended: on the example infer allocates two variables, returns Var(1)
\* and leaves the one constraint Eq(Fun[Var(0), Var(0)], Fun[Int, Var(1)]).
C9_InferExample ==
    (RunsExample /\ pc = "inferred") =>
        /\ ty = <<TVar(1)>>
        /\ subst = <<TVar(0), TVar(1)>>
        /\ constraints = <<Eq(Fun(TVar(0), TVar(0)), Fun(IntTy, TVar(1)))>>

\* infer has returned on the example, with its one constraint still unsolved.
C9_Witness ==
    RunsExample /\ pc = "inferred" /\ ty = <<TVar(1)>> /\ Len(constraints) = 1

----------------------------------------------------------------------------
(* What the claims speak of *)

\* The names an expression uses without binding them.
RECURSIVE FreeNames(_)
FreeNames(e) ==
    IF IsEVar(e) THEN {e.var}
    ELSE IF IsEApp(e) THEN FreeNames(e.fun) \cup FreeNames(e.arg)
    ELSE FreeNames(e.body) \ {e.param}

\* Every free name of the expression is predeclared in the base scope (whose
\* types are all ground).
FreeNamesDeclared == FreeNames(expr) \subseteq DOMAIN env[1]

\* t contains a variable whose slot in s still holds the variable itself.
RECURSIVE HasUnboundVar(_, _)
HasUnboundVar(s, t) ==
    IF IsVar(t) THEN s[t.id + 1] = t
    ELSE \E i \in DOMAIN t.args : HasUnboundVar(s, t.args[i])

\* Var(k) occurs in the term t as written.
RECURSIVE Contains(_, _)
Contains(t, k) ==
    IF IsVar(t) THEN t.id = k
    ELSE \E i \in DOMAIN t.args : Contains(t.args[i], k)

\* Var(id) is reachable from t by recursing into constructor arguments and
\* following the bindings of bound variables; an unbound variable other than
\* Var(id) is not followed and contributes nothing.
RECURSIVE Reaches(_, _, _)
Reaches(s, id, t) ==
    IF IsCon(t) THEN \E i \in DOMAIN t.args : Reaches(s, id, t.args[i])
    ELSE IF t.id = id THEN TRUE
    ELSE IF s[t.id + 1] = t THEN FALSE
    ELSE Reaches(s, id, s[t.id + 1])

\* The call of unify that runs next, if any: <<t1, t2>>.
HasCall == pc = "solving" /\ (work # <<>> \/ pending # <<>>)
Call == IF work # <<>> THEN Head(work) ELSE Head(pending)

\* The next call of unify is on an unbound variable CallVar against CallTerm,
\* so it runs the occurs check occurs_in(CallVar, CallTerm).
CallVar == IF IsVar(Call[1]) THEN Call[1].id ELSE Call[2].id
CallTerm == IF IsVar(Call[1]) THEN Call[2] ELSE Call[1]
CallChecksOccurs ==
    /\ HasCall
    /\ IsVar(Call[1]) \/ IsVar(Call[2])
    /\ Call[1] # Call[2]
    /\ subst[CallVar + 1] = TVar(CallVar)

\* The next call of unify is on two constructors.
CallOnCons == HasCall /\ IsCon(Call[1]) /\ IsCon(Call[2])

----------------------------------------------------------------------------
(* Termination and the occurs check *)

\* C2, as stated: for an expression whose free names are all predeclared with
\* ground types, infer, solve_constraints and substitute terminate, and the
\* type that results contains no unbound type variable.
C2_AsStated ==
    FreeNamesDeclared =>
        /\ pc # "overflow"
        /\ pc = "done" => ~HasUnboundVar(subst, result[1])

\* C3, as stated: a call of unify on an unbound Var(k) and a constructor term
\* that contains Var(k) ends in the occurs-check failure for k: it does not
\* recurse without end, and slot k stays unbound.
C3_AsStated ==
    [][(CallChecksOccurs /\ IsCon(CallTerm) /\ Contains(CallTerm, CallVar)) =>
          (pc' # "overflow" /\ err' = "assert_occurs" /\ subst' = subst)]_vars

\* C10, as stated: on the (cycle-free) store of the engine, the occurs check
\* that unify runs returns, and returns true exactly when the variable is
\* reachable from the term through constructor arguments and bindings, an
\* unbound other variable contributing false.
C10_AsStated ==
    CallChecksOccurs =>
        occurs_in(subst, CallVar, CallTerm)
            = (IF Reaches(subst, CallVar, CallTerm) THEN "T" ELSE "F")

----------------------------------------------------------------------------
(* Failures as values, and the scopes they leave *)

\* C4, as stated: infer on an expression that uses a name no scope declares
\* fails, and the failure is returned to the caller, the program not aborted.
C4_AsStated ==
    [][(pc = "start" /\ ~FreeNamesDeclared) =>
          (err' # "none" /\ pc' # "panicked")]_vars

\* C5, as stated: a call of unify on two constructors whose names differ, or
\* whose names agree and argument counts differ, fails with a type mismatch
\* that is returned as a value, the program not aborted.
C5_AsStated ==
    [][(CallOnCons /\ (Call[1].name # Call[2].name
                        \/ Len(Call[1].args) # Len(Call[2].args))) =>
          (err' \in {"assert_name", "assert_arity"} /\ pc' # "panicked")]_vars

\* C6, as stated: when the call of infer ends, by success or by failure, the
\* environment stack holds exactly the scopes it held before the call.
C6_AsStated ==
    [][pc = "start" => env' = env]_vars

----------------------------------------------------------------------------
(* Lexical scoping *)

\* Inference with the environment passed down as one name -> type map, so
\* that a name always denotes its innermost enclosing binder: the type and
\* the constraints of ex under rho, n variables having been allocated.
RECURSIVE Lexical(_, _, _)
Lexical(ex, rho, n) ==
    IF IsEVar(ex) THEN [ty |-> rho[ex.var], cs |-> <<>>, n |-> n]
    ELSE IF IsEApp(ex) THEN
        LET f == Lexical(ex.fun, rho, n)
            a == Lexical(ex.arg, rho, f.n)
        IN [ty |-> TVar(a.n),
            cs |-> f.cs \o a.cs \o <<Eq(f.ty, Fun(a.ty, TVar(a.n)))>>,
            n |-> a.n + 1]
    ELSE
        LET inner == [m \in (DOMAIN rho) \cup {ex.param} |->
                          IF m = ex.param THEN TVar(n) ELSE rho[m]]
            b == Lexical(ex.body, inner, n + 1)
        IN [ty |-> Fun(TVar(n), b.ty), cs |-> b.cs, n |-> b.n]

\* C7: lexical shadowing.  The type and the constraints infer produces are
\* those in which every reference to a name has the type of the innermost
\* enclosing binder of that name: inside an inner abstraction of the same
\* name the inner parameter's variable, and after it the outer one again.
C7_LexicalShadowing ==
    pc = "inferred" =>
        LET lex == Lexical(expr, env[1], 0)
        IN ty = <<lex.ty>> /\ constraints = lex.cs /\ Len(subst) = lex.n

\* Abs("x", App(Abs("x", Var("x")), Var("x"))) has been inferred: the inner
\* reference got the inner variable 1, the later outer reference variable 0.
C7_Witness ==
    /\ pc = "inferred"
    /\ expr = EAbs("x", EApp(EAbs("x", EVar("x")), EVar("x")))
    /\ constraints = <<Eq(Fun(TVar(1), TVar(1)), Fun(TVar(0), TVar(2)))>>
    /\ ty = <<Fun(TVar(0), TVar(2))>>

----------------------------------------------------------------------------
(* Substitution after solving *)

\* The types over the allocated variables that the idempotence is checked on:
\* the variables, Int, the function types over these, and the inferred type.
Atoms == {TVar(i) : i \in 0..(Len(subst) - 1)} \cup {IntTy}
SampleTypes == Atoms \cup {Fun(a, b) : a \in Atoms, b \in Atoms} \cup {ty[i] : i \in DOMAIN ty}

\* C8: once solve_constraints has completed, substitute is idempotent on
\* every type whose variables are all allocated.
C8_SubstituteIdempotent ==
    pc \in {"solved", "done"} =>
        \A t \in SampleTypes :
            substitute(subst, substitute(subst, t)) = substitute(subst, t)

\* Solving has completed with a variable bound to a bound variable: a chain
\* that substitute has to follow for more than one step.
C8_Witness ==
    /\ pc = "solved"
    /\ \E i \in DOMAIN subst :
           /\ IsVar(subst[i])
           /\ subst[i] # TVar(i - 1)
           /\ subst[subst[i].id + 1] # subst[i]

----------------------------------------------------------------------------
(* The store has no cycle *)

\* The variables that occur in the term t as written.
RECURSIVE VarsOf(_)
VarsOf(t) ==
    IF IsVar(t) THEN {t.id}
    ELSE UNION {VarsOf(t.args[i]) : i \in DOMAIN t.args}

\* The variables in the mapping of Var(i), none when slot i holds Var(i).
BoundTo(s, i) == IF s[i + 1] = TVar(i) THEN {} ELSE VarsOf(s[i + 1])

\* The variables reached from those of V by following bindings, in at most
\* n further rounds.
RECURSIVE ResolvesTo(_, _, _)
ResolvesTo(s, V, n) ==
    LET W == V \cup UNION {BoundTo(s, j) : j \in V}
    IN IF n = 0 \/ W = V THEN V ELSE ResolvesTo(s, W, n - 1)

\* C11: in every state of the engine, after infer and after each call and
\* each bind of unify within solve_constraints, the substitution store is
\* cycle-free: no Var(i) resolves, through one binding or more, to a term
\* that contains Var(i).
C11_StoreCycleFree ==
    \A i \in 0..(Len(subst) - 1) :
        i \notin ResolvesTo(subst, BoundTo(subst, i), Len(subst))

\* unify has bound a variable to a term that contains a variable, itself
\* bound, and has further calls to run: a store with a chain of bindings, in
\* the middle of solving.
C11_Witness ==
    /\ pc = "solving"
    /\ work # <<>>
    /\ \E i \in 0..(Len(subst) - 1) :
           \E j \in BoundTo(subst, i) : subst[j + 1] # TVar(j)

====
